---- MODULE Spec2Model ----
(***************************************************************************)
(* Model of server/api/question/question.controller.js: the HTTP handlers  *)
(* of the Question resource over the "questions" collection.               *)
(*                                                                         *)
(* A handler that reads a document and later writes it (update, destroy,   *)
(* updateAnswerComment) is split between the read and the write: the       *)
(* arrival of the request with its read is one action, the write with the  *)
(* response another, so that other requests interleave between the two.    *)
(* A handler that issues one Question.update and then calls exports.show   *)
(* to read the document back is one action.  The synchronous steps of a    *)
(* promise chain are operators applied in order.                           *)
(*                                                                         *)
(* An optional value (null / a document) is a sequence of length 0 or 1.   *)
(***************************************************************************)
EXTENDS Integers, Sequences, FiniteSets, TLC

\* ------------------------------------------------------------------ bounds
NumUsers == 2
NumContents == 2
MaxQuestions == 2
MaxAnswers == 2
MaxComments == 2
MaxInFlight == 2
MaxScans == 1

Users == 1..NumUsers
Contents == 1..NumContents
QuestionIds == 1..MaxQuestions
AnswerIds == 1..MaxAnswers
CommentIds == 1..MaxComments
Slots == 1..MaxInFlight

VARIABLES
    store,      \* the questions collection: id -> <<>> (absent) or <<document>>
    nextQ,      \* next question id the store assigns
    nextA,      \* next embedded answer id the store assigns
    nextC,      \* next embedded comment id the store assigns
    slots,      \* requests whose handler waits for a store call
    last        \* the request that just completed, with its response, until the
                \* response has reached the client

vars == <<store, nextQ, nextA, nextC, slots, last>>

\* ------------------------------------------------------------ the response
EmptyBody == [kind |-> "empty", doc |-> <<>>]
TextBody  == [kind |-> "text",  doc |-> <<>>]
ErrBody   == [kind |-> "err",   doc |-> <<>>]
JsonBody(entity) == [kind |-> "json", doc |-> entity]

\* res.status(code).end(): the status with an empty body.
StatusEnd(code) == [status |-> code, body |-> EmptyBody]

\* res.send(code).end() with a number: Express 4 takes the number as the
\* status and sends the status text as the body; the .end() that follows
\* finds the response finished.
SendNumber(code) == [status |-> code, body |-> TextBody]

\* res.status(code).json(entity)
StatusJson(code, entity) == [status |-> code, body |-> JsonBody(entity)]

\* res.status(500).send(err)
StatusSendErr(code) == [status |-> code, body |-> ErrBody]

\* ------------------------------------------------------ the promise chain
\* The value a chain carries between its .then steps: val is the entity (<<>>
\* for null or undefined), err says the promise is rejected, calls are the
\* calls that end a response in the order the handler makes them (the first
\* reaches the client; a later one is made on a response already sent),
\* merged says _.merge ran.
Chain(entity, ok) ==
    [val |-> IF ok THEN entity ELSE <<>>, err |-> ~ok, calls |-> <<>>, merged |-> FALSE]

respondWithResult(c, statusCode) ==
    IF c.err THEN c
    ELSE IF c.val # <<>>
         THEN [c EXCEPT !.calls = Append(@, StatusJson(statusCode, c.val)), !.val = <<>>]
         ELSE [c EXCEPT !.val = <<>>]

\* handleEntityNotFound without its res.status(404).end().
handleEntityNotFoundSilent(c) == c

handleEntityNotFound(c) ==
    IF c.err THEN c
    ELSE IF c.val = <<>>
         THEN [c EXCEPT !.calls = Append(@, StatusEnd(404))]
         ELSE c

handleError(c) ==
    IF c.err
    THEN [c EXCEPT !.calls = Append(@, StatusSendErr(500)), !.err = FALSE, !.val = <<>>]
    ELSE c

handleUnauthorized(c, user) ==
    IF c.err THEN c
    ELSE IF c.val = <<>> THEN c
    ELSE IF c.val[1].user # user
         THEN [c EXCEPT !.calls = Append(@, SendNumber(403)), !.val = <<>>]
         ELSE c

\* _.merge(entity, updates): the fields of updates overwrite those of entity.
Merge(entity, updates) ==
    [f \in DOMAIN entity \cup DOMAIN updates |->
        IF f \in DOMAIN updates THEN updates[f] ELSE entity[f]]

\* The synchronous part of saveUpdates: the merge, then the call of
\* updated.saveAsync, which throws when the entity is null.
saveUpdatesSync(c) ==
    IF c.err THEN c
    ELSE IF c.val = <<>>
         THEN [c EXCEPT !.merged = TRUE, !.err = TRUE]
         ELSE [c EXCEPT !.merged = TRUE]

\* if (req.body._id) delete req.body._id
StripId(body) == [f \in DOMAIN body \ {"_id"} |-> body[f]]

\* ---------------------------------------------------------------- the store
\* The _id the store gives a new question, a new embedded answer and a new
\* embedded comment: one never given before.
NewQuestionId == nextQ
NewAnswerId == nextA
NewCommentId == nextC

FindById(s, id) == s[id]

NewQuestion(id, body) ==
    [_id |-> id, user |-> body.user, content |-> body.content,
     answers |-> <<>>, comments |-> <<>>]

\* Document#save of a document read earlier: the paths the merge modified are
\* written to the stored document of that _id, if it is still stored.
SaveAsync(s, entity, updated) ==
    LET id == updated._id IN
    IF id \in QuestionIds /\ s[id] # <<>>
    THEN [s EXCEPT ![id] = <<[f \in DOMAIN s[id][1] |->
                                IF updated[f] # entity[f] THEN updated[f] ELSE s[id][1][f]]>>]
    ELSE s

RemoveAsync(s, entity) == [s EXCEPT ![entity._id] = <<>>]

\* The first of the positions m, 0 when there is none: the element that the
\* positional $ of an update stands for.
FirstMatch(m) == IF m = {} THEN 0 ELSE CHOOSE i \in m : \A j \in m : i <= j

\* The positions of seq whose element has _id k, and those whose element
\* has owner user.
PositionsOfId(seq, k) == {i \in 1..Len(seq) : seq[i]._id = k}
PositionsOfUser(seq, user) == {i \in 1..Len(seq) : seq[i].user = user}

NewAnswer(id, body) ==
    [_id |-> id, user |-> body.user, content |-> body.content, comments |-> <<>>]

NewComment(id, body) == [_id |-> id, user |-> body.user, content |-> body.content]

\* Question.update(conditions, doc, callback): the collection after the update
\* and num, the number of documents the conditions matched, whether or not
\* the update changed them.
NoMatch(s) == [store |-> s, num |-> 0]

\* $push that puts the new answer at the front of the list.
PushAnswerFront(s, id, answer) ==
    IF s[id] = <<>> THEN NoMatch(s)
    ELSE [store |-> [s EXCEPT ![id][1].answers = <<answer>> \o @], num |-> 1]

\* { _id: id }, { $push: { answers: answer } }
PushAnswer(s, id, answer) ==
    IF s[id] = <<>> THEN NoMatch(s)
    ELSE [store |-> [s EXCEPT ![id][1].answers = Append(@, answer)], num |-> 1]

\* { _id: id, 'answers._id': aid }, { 'answers.$.content': content, 'answers.$.user': user }
SetAnswer(s, id, aid, content, user) ==
    LET i == IF s[id] = <<>> THEN 0
             ELSE FirstMatch(PositionsOfId(s[id][1].answers, aid))
    IN  IF i = 0 THEN NoMatch(s)
        ELSE [store |-> [s EXCEPT ![id][1].answers[i] =
                            [@ EXCEPT !.content = content, !.user = user]],
              num |-> 1]

\* $pull by the answer id alone, whoever owns the answer.
PullAnswerAnyOwner(s, id, aid, user) ==
    IF s[id] = <<>> THEN NoMatch(s)
    ELSE [store |-> [s EXCEPT ![id][1].answers = SelectSeq(@, LAMBDA a : a._id # aid)],
          num |-> 1]

\* { _id: id }, { $pull: { answers: { _id: aid, user: user } } }
PullAnswer(s, id, aid, user) ==
    IF s[id] = <<>> THEN NoMatch(s)
    ELSE [store |-> [s EXCEPT ![id][1].answers =
                        SelectSeq(@, LAMBDA a : ~(a._id = aid /\ a.user = user))],
          num |-> 1]

\* { _id: id }, { $push: { comments: comment } }
PushComment(s, id, comment) ==
    IF s[id] = <<>> THEN NoMatch(s)
    ELSE [store |-> [s EXCEPT ![id][1].comments = Append(@, comment)], num |-> 1]

\* { _id: id }, { $pull: { comments: { _id: cid, user: user } } }
PullComment(s, id, cid, user) ==
    IF s[id] = <<>> THEN NoMatch(s)
    ELSE [store |-> [s EXCEPT ![id][1].comments =
                        SelectSeq(@, LAMBDA c : ~(c._id = cid /\ c.user = user))],
          num |-> 1]

\* { _id: id, 'comments._id': cid }, { 'comments.$.content': content, 'comments.$.user': user }
SetComment(s, id, cid, content, user) ==
    LET i == IF s[id] = <<>> THEN 0
             ELSE FirstMatch(PositionsOfId(s[id][1].comments, cid))
    IN  IF i = 0 THEN NoMatch(s)
        ELSE [store |-> [s EXCEPT ![id][1].comments[i] =
                            [@ EXCEPT !.content = content, !.user = user]],
              num |-> 1]

\* { _id: id, 'answers._id': aid }, { $push: { 'answers.$.comments': comment } }
PushAnswerComment(s, id, aid, comment) ==
    LET i == IF s[id] = <<>> THEN 0
             ELSE FirstMatch(PositionsOfId(s[id][1].answers, aid))
    IN  IF i = 0 THEN NoMatch(s)
        ELSE [store |-> [s EXCEPT ![id][1].answers[i].comments = Append(@, comment)],
              num |-> 1]

\* { _id: id, 'answers._id': aid },
\* { $pull: { 'answers.$.comments': { _id: cid, user: user } } }
PullAnswerComment(s, id, aid, cid, user) ==
    LET i == IF s[id] = <<>> THEN 0
             ELSE FirstMatch(PositionsOfId(s[id][1].answers, aid))
    IN  IF i = 0 THEN NoMatch(s)
        ELSE [store |-> [s EXCEPT ![id][1].answers[i].comments =
                            SelectSeq(@, LAMBDA c : ~(c._id = cid /\ c.user = user))],
              num |-> 1]

\* The loop taking every position for a match.
ScanAnswersAll(answers, aid) == 0..(Len(answers) - 1)

\* The loop of updateAnswerComment over question.answers: the zero-based
\* positions i with answers[i]._id = aid.
ScanAnswers(answers, aid) == {i \in 0..(Len(answers) - 1) : answers[i + 1]._id = aid}

\* The comments that the conditions of updateAnswerComment address:
\* those of the answer at zero-based position idx, none when there is no such
\* document or position.
CommentsAt(s, id, idx) ==
    IF s[id] = <<>> THEN <<>>
    ELSE IF idx + 1 > Len(s[id][1].answers) THEN <<>>
    ELSE s[id][1].answers[idx + 1].comments

\* conditions['answers.i.comments._id'] = cid and
\* conditions['answers.i.comments.user'] = user are two conditions on the same
\* array: the document matches when some comment has the id and some comment
\* has the user.  The positional $ of the update is then the first position
\* matching one of the two conditions; which one is not defined by the store.
PositionalMatches(s, id, idx, cid, user) ==
    LET comments == CommentsAt(s, id, idx)
        byId == FirstMatch(PositionsOfId(comments, cid))
        byUser == FirstMatch(PositionsOfUser(comments, user))
    IN  IF byId = 0 \/ byUser = 0 THEN {} ELSE {byId, byUser}

\* doc['answers.i.comments.$.content'] = content, with $ resolved to pos;
\* pos = 0 stands for conditions that match no document.
SetAnswerCommentAt(s, id, idx, pos, content) ==
    IF pos = 0 THEN NoMatch(s)
    ELSE [store |-> [s EXCEPT ![id][1].answers[idx + 1].comments[pos].content = content],
          num |-> 1]

\* ------------------------------------------------------------- the requests
Idle == [pc |-> "idle", user |-> 0, id |-> 0, aid |-> 0, cid |-> 0, idx |-> 0,
         entity |-> <<>>]

Request(pc, user, id, aid, cid, idx, entity) ==
    [pc |-> pc, user |-> user, id |-> id, aid |-> aid, cid |-> cid, idx |-> idx,
     entity |-> entity]

\* The slot a request arriving takes: the lowest idle one, 0 when all are taken.
FreeSlot ==
    IF \A s \in Slots : slots[s] # Idle THEN 0
    ELSE CHOOSE s \in Slots : slots[s] = Idle /\ \A z \in Slots : slots[z] = Idle => s <= z

\* A completed request: what it asked (op, the acting user, the ids of the
\* route, puser the user field of a create payload), the response calls made,
\* whether _.merge ran, the number of store write calls issued (create, save,
\* remove, update) and whether the collection changed.
Done(op, user, id, aid, cid, c, writes, changed) ==
    [op |-> op, user |-> user, id |-> id, aid |-> aid, cid |-> cid,
     puser |-> 0, calls |-> c.calls, merged |-> c.merged, writes |-> writes,
     changed |-> changed]

NoRequest == [op |-> "none", user |-> 0, id |-> 0, aid |-> 0, cid |-> 0, puser |-> 0,
              calls |-> <<>>, merged |-> FALSE, writes |-> 0, changed |-> FALSE]

\* No response is on its way to a client.
Ready == last = NoRequest

Init ==
    /\ store = [q \in QuestionIds |-> <<>>]
    /\ nextQ = 1
    /\ nextA = 1
    /\ nextC = 1
    /\ slots = [s \in Slots |-> Idle]
    /\ last = NoRequest

\* show: findByIdAsync, handleEntityNotFound, respondWithResult, catch.
showChain(s, id, ok) ==
    handleError(respondWithResult(handleEntityNotFound(Chain(FindById(s, id), ok)), 200))

show ==
    /\ Ready
    /\ \E id \in QuestionIds, ok \in BOOLEAN :
        /\ last' = Done("show", 0, id, 0, 0, showChain(store, id, ok), 0, FALSE)
        /\ UNCHANGED <<store, nextQ, nextA, nextC, slots>>

\* A payload whose own user field is kept.
createBodyPayloadWins(body, user) == Merge([user |-> user], body)

\* create: req.body.user = req.user, Question.create, 201.
createBody(body, user) == Merge(body, [user |-> user])

create ==
    /\ Ready
    /\ \E user \in Users, content \in Contents, payloadUser \in Users, ok \in BOOLEAN :
        LET body == createBody([user |-> payloadUser, content |-> content], user)
            doc == NewQuestion(NewQuestionId, body)
            c == handleError(respondWithResult(Chain(<<doc>>, ok), 201))
        IN  /\ nextQ <= MaxQuestions
            /\ store' = IF ok THEN [store EXCEPT ![NewQuestionId] = <<doc>>] ELSE store
            /\ nextQ' = IF ok THEN nextQ + 1 ELSE nextQ
            /\ last' = [Done("create", user, IF ok THEN NewQuestionId ELSE 0, 0, 0, c, 1, ok)
                          EXCEPT !.puser = payloadUser]
            /\ UNCHANGED <<nextA, nextC, slots>>

\* The payloads of an update: content, with or without _id and user fields.
UpdateBodies ==
    {[content |-> c] : c \in Contents}
    \cup {[_id |-> i, content |-> c] : i \in QuestionIds, c \in Contents}
    \cup {[user |-> u, content |-> c] : u \in Users, c \in Contents}

\* update, up to the call of saveAsync: findByIdAsync, handleEntityNotFound,
\* handleUnauthorized, saveUpdates; a chain that is rejected or holds no entity
\* ends in this step (respondWithResult, catch).
updateChain(s, id, user, ok) ==
    saveUpdatesSync(handleUnauthorized(handleEntityNotFound(Chain(FindById(s, id), ok)), user))

update ==
    /\ Ready
    /\ \E user \in Users, id \in QuestionIds, ok \in BOOLEAN :
        LET c == updateChain(store, id, user, ok)
            s == FreeSlot
        IN
        /\ s # 0
        /\ IF c.err
           THEN /\ last' = Done("update", user, id, 0, 0,
                                handleError(respondWithResult(c, 200)), 0, FALSE)
                /\ UNCHANGED slots
           ELSE /\ slots' = [slots EXCEPT ![s] =
                               Request("save", user, id, 0, 0, 0, c.val)]
                /\ UNCHANGED last
        /\ UNCHANGED <<store, nextQ, nextA, nextC>>

\* update, from saveAsync on: the merged document is saved and sent.
updateSave ==
    /\ Ready
    /\ \E s \in Slots, body \in UpdateBodies, ok \in BOOLEAN :
        LET r == slots[s]
            updated == Merge(r.entity[1], StripId(body))
            after == IF ok THEN SaveAsync(store, r.entity[1], updated) ELSE store
            c == [Chain(<<updated>>, ok) EXCEPT !.merged = TRUE]
        IN  /\ r.pc = "save"
            /\ store' = after
            /\ slots' = [slots EXCEPT ![s] = Idle]
            /\ last' = Done("update", r.user, r.id, 0, 0,
                            handleError(respondWithResult(c, 200)), 1, after # store)
            /\ UNCHANGED <<nextQ, nextA, nextC>>

\* removeEntity: if (entity) entity.removeAsync()
removeEntityCalls(c) == ~c.err /\ c.val # <<>>

\* destroy, up to the call of removeAsync.
destroyChain(s, id, user, ok) ==
    handleUnauthorized(handleEntityNotFound(Chain(FindById(s, id), ok)), user)

destroy ==
    /\ Ready
    /\ \E user \in Users, id \in QuestionIds, ok \in BOOLEAN :
        LET c == destroyChain(store, id, user, ok)
            s == FreeSlot
        IN
        /\ s # 0
        /\ IF removeEntityCalls(c)
           THEN /\ slots' = [slots EXCEPT ![s] =
                               Request("remove", user, id, 0, 0, 0, c.val)]
                /\ UNCHANGED last
           ELSE /\ last' = Done("destroy", user, id, 0, 0, handleError(c), 0, FALSE)
                /\ UNCHANGED slots
        /\ UNCHANGED <<store, nextQ, nextA, nextC>>

\* destroy, from removeAsync on: the document is removed, then 204.
destroyRemove ==
    /\ Ready
    /\ \E s \in Slots, ok \in BOOLEAN :
        LET r == slots[s]
            after == IF ok THEN RemoveAsync(store, r.entity[1]) ELSE store
            c0 == Chain(<<>>, ok)
            c == IF ok THEN [c0 EXCEPT !.calls = <<StatusEnd(204)>>] ELSE handleError(c0)
        IN  /\ r.pc = "remove"
            /\ store' = after
            /\ slots' = [slots EXCEPT ![s] = Idle]
            /\ last' = Done("destroy", r.user, r.id, 0, 0, c, 1, after # store)
            /\ UNCHANGED <<nextQ, nextA, nextC>>

\* return res.send(404).end()
send404 == [Chain(<<>>, TRUE) EXCEPT !.calls = <<SendNumber(404)>>]

\* return handleError(res)(err)
sendError == handleError(Chain(<<>>, FALSE))

\* What the store does to a Question.update followed by exports.show: both
\* succeed, the update fails, or the update succeeds and the find of show fails.
Outcomes == {"ok", "err", "showErr"}

\* function (err, num) { ... } of a Question.update, r being what the update
\* did: an error is sent as 500, num === 0 as 404, and otherwise
\* exports.show(req, res) reads the document back and responds.
callback(op, user, id, aid, cid, r, outcome) ==
    IF outcome = "err"
    THEN /\ store' = store
         /\ last' = Done(op, user, id, aid, cid, sendError, 1, FALSE)
    ELSE IF r.num = 0
    THEN /\ store' = store
         /\ last' = Done(op, user, id, aid, cid, send404, 1, FALSE)
    ELSE /\ store' = r.store
         /\ last' = Done(op, user, id, aid, cid,
                         showChain(r.store, id, outcome # "showErr"), 1, r.store # store)

createAnswer ==
    /\ Ready
    /\ \E user \in Users, id \in QuestionIds, content \in Contents,
       outcome \in Outcomes :
        LET body == createBody([content |-> content], user)
            r == PushAnswer(store, id, NewAnswer(NewAnswerId, body))
            pushed == outcome # "err" /\ r.num # 0
        IN  /\ pushed => nextA <= MaxAnswers
            /\ callback("createAnswer", user, id, IF pushed THEN NewAnswerId ELSE 0, 0,
                        r, outcome)
            /\ nextA' = IF pushed THEN nextA + 1 ELSE nextA
            /\ UNCHANGED <<nextQ, nextC, slots>>

updateAnswer ==
    /\ Ready
    /\ \E user \in Users, id \in QuestionIds, aid \in AnswerIds, content \in Contents,
       outcome \in Outcomes :
        /\ callback("updateAnswer", user, id, aid, 0,
                    SetAnswer(store, id, aid, content, user), outcome)
        /\ UNCHANGED <<nextQ, nextA, nextC, slots>>

destroyAnswer ==
    /\ Ready
    /\ \E user \in Users, id \in QuestionIds, aid \in AnswerIds,
       outcome \in Outcomes :
        /\ callback("destroyAnswer", user, id, aid, 0,
                    PullAnswer(store, id, aid, user), outcome)
        /\ UNCHANGED <<nextQ, nextA, nextC, slots>>

createComment ==
    /\ Ready
    /\ \E user \in Users, id \in QuestionIds, content \in Contents,
       outcome \in Outcomes :
        LET body == createBody([content |-> content], user)
            r == PushComment(store, id, NewComment(NewCommentId, body))
            pushed == outcome # "err" /\ r.num # 0
        IN  /\ pushed => nextC <= MaxComments
            /\ callback("createComment", user, id, 0, IF pushed THEN NewCommentId ELSE 0,
                        r, outcome)
            /\ nextC' = IF pushed THEN nextC + 1 ELSE nextC
            /\ UNCHANGED <<nextQ, nextA, slots>>

destroyComment ==
    /\ Ready
    /\ \E user \in Users, id \in QuestionIds, cid \in CommentIds,
       outcome \in Outcomes :
        /\ callback("destroyComment", user, id, 0, cid,
                    PullComment(store, id, cid, user), outcome)
        /\ UNCHANGED <<nextQ, nextA, nextC, slots>>

updateComment ==
    /\ Ready
    /\ \E user \in Users, id \in QuestionIds, cid \in CommentIds, content \in Contents,
       outcome \in Outcomes :
        /\ callback("updateComment", user, id, 0, cid,
                    SetComment(store, id, cid, content, user), outcome)
        /\ UNCHANGED <<nextQ, nextA, nextC, slots>>

createAnswerComment ==
    /\ Ready
    /\ \E user \in Users, id \in QuestionIds, aid \in AnswerIds, content \in Contents,
       outcome \in Outcomes :
        LET body == createBody([content |-> content], user)
            r == PushAnswerComment(store, id, aid, NewComment(NewCommentId, body))
            pushed == outcome # "err" /\ r.num # 0
        IN  /\ pushed => nextC <= MaxComments
            /\ callback("createAnswerComment", user, id, aid,
                        IF pushed THEN NewCommentId ELSE 0, r, outcome)
            /\ nextC' = IF pushed THEN nextC + 1 ELSE nextC
            /\ UNCHANGED <<nextQ, nextA, slots>>

destroyAnswerComment ==
    /\ Ready
    /\ \E user \in Users, id \in QuestionIds, aid \in AnswerIds, cid \in CommentIds,
       outcome \in Outcomes :
        /\ callback("destroyAnswerComment", user, id, aid, cid,
                    PullAnswerComment(store, id, aid, cid, user), outcome)
        /\ UNCHANGED <<nextQ, nextA, nextC, slots>>

\* updateAnswerComment, up to the call of Question.update: Question.find and
\* the scan of the answers for the position of answerId.  The answer ids of
\* a question are distinct, so the loop finds at most one position.
updateAnswerComment ==
    /\ Ready
    /\ \E user \in Users, id \in QuestionIds, aid \in AnswerIds, cid \in CommentIds,
       ok \in BOOLEAN :
        LET questions == FindById(store, id)
            found == IF questions = <<>> THEN {} ELSE ScanAnswers(questions[1].answers, aid)
            s == FreeSlot
        IN  /\ s # 0
            /\ Cardinality({z \in Slots : slots[z].pc = "write"}) < MaxScans
            /\ IF ~ok
               THEN /\ last' = Done("updateAnswerComment", user, id, aid, cid, sendError,
                                    0, FALSE)
                    /\ UNCHANGED slots
               ELSE IF found = {}
               THEN /\ last' = Done("updateAnswerComment", user, id, aid, cid, send404,
                                    0, FALSE)
                    /\ UNCHANGED slots
               ELSE /\ \E i \in found :
                         slots' = [slots EXCEPT ![s] =
                                      Request("write", user, id, aid, cid, i, <<>>)]
                    /\ UNCHANGED last
            /\ UNCHANGED <<store, nextQ, nextA, nextC>>

\* updateAnswerComment, from Question.update(conditions, doc, callback) on.
updateAnswerCommentWrite ==
    /\ Ready
    /\ \E s \in Slots, content \in Contents, outcome \in Outcomes :
        LET r == slots[s]
            matches == PositionalMatches(store, r.id, r.idx, r.cid, r.user)
        IN  /\ r.pc = "write"
            /\ \E pos \in (IF matches = {} THEN {0} ELSE matches) :
                   callback("updateAnswerComment", r.user, r.id, r.aid, r.cid,
                            SetAnswerCommentAt(store, r.id, r.idx, pos, content), outcome)
            /\ slots' = [slots EXCEPT ![s] = Idle]
            /\ UNCHANGED <<nextQ, nextA, nextC>>

\* The response of the request that completed reaches its client.
deliver ==
    /\ ~Ready
    /\ last' = NoRequest
    /\ UNCHANGED <<store, nextQ, nextA, nextC, slots>>

\* The requests on a question itself.
NextQuestion ==
    \/ show
    \/ create
    \/ update
    \/ updateSave
    \/ destroy
    \/ destroyRemove

\* The requests on the answers of a question.
NextAnswers ==
    \/ createAnswer
    \/ updateAnswer
    \/ destroyAnswer

\* The requests on the comments of a question.
NextComments ==
    \/ createComment
    \/ updateComment
    \/ destroyComment

\* The requests on the comments of an answer, with those that add and remove
\* answers.
NextAnswerComment ==
    \/ createAnswer
    \/ destroyAnswer
    \/ createAnswerComment
    \/ destroyAnswerComment
    \/ updateAnswerComment
    \/ updateAnswerCommentWrite

Next == NextQuestion \/ NextAnswers \/ NextComments \/ NextAnswerComment \/ deliver

\* A collection that holds question 1 and has assigned every question id:
\* the state after MaxQuestions create requests and the destroy of all
\* questions but the first, each by its owner.  Every such state is reached
\* from Init by the requests of NextQuestion.
InitQuestion ==
    /\ \E user \in Users, content \in Contents :
          store = [q \in QuestionIds |->
                     IF q = 1 THEN <<NewQuestion(1, [user |-> user, content |-> content])>>
                     ELSE <<>>]
    /\ nextQ = MaxQuestions + 1
    /\ nextA = 1
    /\ nextC = 1
    /\ slots = [s \in Slots |-> Idle]
    /\ last = NoRequest

Spec == Init /\ [][Next]_vars

SpecQuestion == Init /\ [][NextQuestion \/ deliver]_vars

SpecEmbedded == InitQuestion /\ [][NextAnswers \/ NextComments \/ deliver]_vars

SpecAnswerComment == InitQuestion /\ [][NextAnswerComment \/ deliver]_vars

\* ------------------------------------------------------------------ claims
\* The response of the completed request is the single call r.
Responds(l, r) == l.calls = <<r>>

\* The client of the completed request receives r: the first response call.
ClientSees(l, r) == l.calls # <<>> /\ l.calls[1] = r

\* The store refused the first call of the completed request.
StoreFailed(l) == l.calls = <<StatusSendErr(500)>>

\* An update or destroy request that ended without reaching its write.
Dismissed(l) == l.op \in {"update", "destroy"} /\ l.writes = 0 /\ ~StoreFailed(l)

\* C1, as claimed: an update or destroy gets to saveAsync or removeAsync only
\* for the owner of a stored question; a request by another user leaves the
\* collection as it is and is answered by an empty 403, and a request for an
\* id that is not stored by an empty 404 with the collection as it is.
C1_Claim ==
    [][Ready =>
        /\ \A s \in Slots :
              (slots[s] = Idle /\ slots'[s].pc \in {"save", "remove"}) =>
                  /\ store[slots'[s].id] # <<>>
                  /\ store[slots'[s].id][1].user = slots'[s].user
        /\ Dismissed(last') =>
              /\ store' = store
              /\ last'.writes = 0
              /\ IF store[last'.id] = <<>>
                 THEN ClientSees(last', StatusEnd(404))
                 ELSE /\ store[last'.id][1].user # last'.user
                      /\ ClientSees(last', StatusEnd(403))]_vars

\* C3: a create the store accepts is answered by 201 with the created
\* question, whose owner, stored and returned, is the acting user whatever
\* user field the payload carries.
C3_CreateOwner ==
    (last.op = "create" /\ last.changed) =>
        /\ store[last.id] # <<>>
        /\ store[last.id][1].user = last.user
        /\ Responds(last, StatusJson(201, store[last.id]))
        /\ last.calls[1].body.doc[1].user = last.user

\* C3, its case: a question created with a payload naming another user.
C3_Witness ==
    /\ last.op = "create"
    /\ last.changed
    /\ last.puser # last.user
    /\ last.calls[1].status = 201

C9_Claim ==
    last.op \in {"show", "update", "destroy"} =>
        /\ Len(last.calls) = 1
        /\ last.calls[1].status \in {403, 404} => (~last.merged /\ last.writes = 0)

\* The answers and the comments of question id in collection s.
AnswersOf(s, id) == IF s[id] = <<>> THEN <<>> ELSE s[id][1].answers
CommentsOf(s, id) == IF s[id] = <<>> THEN <<>> ELSE s[id][1].comments

\* The elements of seq with _id k.
WithId(seq, k) == {seq[i] : i \in {j \in 1..Len(seq) : seq[j]._id = k}}

\* The step changes the content or the owner of an element of before that is
\* still in after.
Rewritten(before, after) ==
    {a \in {before[i] : i \in 1..Len(before)} :
        \E b \in WithId(after, a._id) : b.content # a.content \/ b.user # a.user}

\* The first response call of the completed request has this status.
Status(l) == IF l.calls = <<>> THEN 0 ELSE l.calls[1].status

\* C2, as claimed: the content and the owner of an answer or of a comment of
\* a question change only in a request of the element's owner, and an
\* updateAnswer or updateComment by another user is rejected and changes
\* nothing.
C2_Claim ==
    [][\A id \in QuestionIds :
        /\ \A a \in Rewritten(AnswersOf(store, id), AnswersOf(store', id)) :
              last'.user = a.user
        /\ \A c \in Rewritten(CommentsOf(store, id), CommentsOf(store', id)) :
              last'.user = c.user
        /\ (last'.op = "updateAnswer" /\ last'.id = id
              /\ \E a \in WithId(AnswersOf(store, id), last'.aid) : a.user # last'.user) =>
                  (store' = store /\ Status(last') # 200)
        /\ (last'.op = "updateComment" /\ last'.id = id
              /\ \E c \in WithId(CommentsOf(store, id), last'.cid) : c.user # last'.user) =>
                  (store' = store /\ Status(last') # 200)]_vars

\* C4: when createAnswer is answered 200, a show of the question right after
\* it (and the response itself) returns the answers the question had, in
\* their order and unchanged, followed by one new answer owned by the acting
\* user.
C4_AppendThenFetch ==
    [][(last'.op = "createAnswer" /\ Status(last') = 200) =>
        LET before == AnswersOf(store, last'.id)
            fetched == showChain(store', last'.id, TRUE)
        IN  /\ store[last'.id] # <<>>
            /\ fetched.calls = last'.calls
            /\ Len(fetched.calls) = 1
            /\ fetched.calls[1].body.kind = "json"
            /\ LET after == fetched.calls[1].body.doc[1].answers
               IN  /\ Len(after) = Len(before) + 1
                   /\ SubSeq(after, 1, Len(before)) = before
                   /\ after[Len(after)].user = last'.user
                   /\ after[Len(after)]._id = last'.aid]_vars

\* C4, its case: an answer added by one user after an answer of another.
C4_Witness ==
    /\ last.op = "createAnswer"
    /\ Status(last) = 200
    /\ Len(AnswersOf(store, last.id)) >= 2
    /\ AnswersOf(store, last.id)[Len(AnswersOf(store, last.id))].user = last.user
    /\ AnswersOf(store, last.id)[1].user # last.user

\* What destroyAnswer and destroyComment are to remove from seq: the elements
\* with the requested id that the acting user owns.
Targets(seq, k, user) == {e \in WithId(seq, k) : e.user = user}
Without(seq, k, user) == SelectSeq(seq, LAMBDA e : ~(e._id = k /\ e.user = user))

\* The collection after the completed destroyAnswer or destroyComment l has
\* removed its targets from question l.id of collection s.
AfterPull(s, l) ==
    IF l.op = "destroyAnswer"
    THEN [s EXCEPT ![l.id] = <<[s[l.id][1] EXCEPT !.answers = Without(@, l.aid, l.user)]>>]
    ELSE [s EXCEPT ![l.id] = <<[s[l.id][1] EXCEPT !.comments = Without(@, l.cid, l.user)]>>]

NoTarget(s, l) ==
    IF l.op = "destroyAnswer"
    THEN Targets(AnswersOf(s, l.id), l.aid, l.user) = {}
    ELSE Targets(CommentsOf(s, l.id), l.cid, l.user) = {}

\* A destroyAnswer or destroyComment that the store served.
Pulls(l) == l.op \in {"destroyAnswer", "destroyComment"} /\ ~StoreFailed(l)

\* C8, as claimed: on a stored question destroyAnswer and destroyComment
\* remove exactly the elements with the requested id that the acting user
\* owns, and when there is none the document is unchanged and the response
\* is 404.
C8_Claim ==
    [][(Pulls(last') /\ store[last'.id] # <<>>) =>
        /\ store' = AfterPull(store, last')
        /\ NoTarget(store, last') => (store' = store /\ Status(last') = 404)]_vars

\* C8, amended: on a stored question destroyAnswer and destroyComment remove
\* exactly the elements with the requested id that the acting user owns and
\* answer 200 with the question read back, also when there is no such
\* element (wrong id or another owner alike), the document then being
\* unchanged; the response is 404 only when the question is not stored.
C8_PullMatchesIdAndOwner ==
    [][Pulls(last') =>
        IF store[last'.id] = <<>>
        THEN store' = store /\ Responds(last', SendNumber(404))
        ELSE /\ store' = AfterPull(store, last')
             /\ NoTarget(store, last') => store' = store
             /\ Responds(last', StatusJson(200, store'[last'.id]))]_vars

\* C8, its case: a destroyAnswer for the answer of another user, answered 200
\* with the answer still there.
C8_Witness ==
    /\ last.op = "destroyAnswer"
    /\ Status(last) = 200
    /\ ~last.changed
    /\ \E a \in WithId(AnswersOf(store, last.id), last.aid) : a.user # last.user

\* The request in slot s makes the position-addressed update of
\* updateAnswerComment in this step.
Writes(s) == slots[s].pc = "write" /\ slots'[s] = Idle

\* The answer that the request r names is at the position that r found.
InPlace(s, r) == ScanAnswers(AnswersOf(s, r.id), r.aid) = {r.idx}

\* Collection s with content written to the comments at positions P of the
\* answer at zero-based position idx of question id.
WithContent(s, id, idx, P, content) ==
    IF P = {} THEN s
    ELSE [s EXCEPT ![id][1].answers[idx + 1].comments =
            [i \in DOMAIN @ |-> IF i \in P THEN [@[i] EXCEPT !.content = content] ELSE @[i]]]

\* C6, as claimed: with the answer at the position found, updateAnswerComment
\* writes the content of the comment of that answer that has the requested
\* id and is owned by the acting user and changes nothing else; without
\* such a comment the document is unchanged and the response is 404.
C6_Claim ==
    [][\A s \in Slots :
        (Writes(s) /\ InPlace(store, slots[s]) /\ ~StoreFailed(last')) =>
            LET r == slots[s]
                comments == CommentsAt(store, r.id, r.idx)
                P == {i \in 1..Len(comments) :
                        comments[i]._id = r.cid /\ comments[i].user = r.user}
            IN  /\ \E content \in Contents :
                      store' = WithContent(store, r.id, r.idx, P, content)
                /\ P = {} => (store' = store /\ Status(last') = 404)]_vars

\* A request that ended at its arrival, for an answer id that no answer of
\* the question has.
NoSuchAnswer(l) ==
    /\ l.op \in {"updateAnswerComment", "destroyAnswerComment"}
    /\ ~StoreFailed(l)
    /\ WithId(AnswersOf(store, l.id), l.aid) = {}

\* C7, as claimed: updateAnswerComment and destroyAnswerComment for an answer
\* id that no answer of the question has are answered 404, issue no write
\* call to the store and leave the collection as it is.
C7_Claim ==
    [][Ready =>
        /\ \A s \in Slots :
              (slots[s] = Idle /\ slots'[s].pc = "write") =>
                  WithId(AnswersOf(store, slots'[s].id), slots'[s].aid) # {}
        /\ (slots' = slots /\ NoSuchAnswer(last')) =>
              /\ Status(last') = 404
              /\ last'.writes = 0
              /\ store' = store]_vars

\* C7, amended: both are answered 404 and leave the collection as it is;
\* updateAnswerComment issues no write call, destroyAnswerComment issues its
\* Question.update, whose conditions match no document.
C7_NoSuchAnswer ==
    [][Ready =>
        /\ \A s \in Slots :
              (slots[s] = Idle /\ slots'[s].pc = "write") =>
                  WithId(AnswersOf(store, slots'[s].id), slots'[s].aid) # {}
        /\ (slots' = slots /\ NoSuchAnswer(last')) =>
              /\ Status(last') = 404
              /\ last'.writes = IF last'.op = "updateAnswerComment" THEN 0 ELSE 1
              /\ store' = store]_vars

\* C7, its case: a destroyAnswerComment for an answer id that none of the
\* answers of the question has, answered 404 after its update call.
C7_Witness ==
    /\ last.op = "destroyAnswerComment"
    /\ Status(last) = 404
    /\ last.writes = 1
    /\ AnswersOf(store, last.id) # <<>>
    /\ WithId(AnswersOf(store, last.id), last.aid) = {}

\* C10, as claimed: whatever createAnswer and destroyAnswer requests come
\* between the read and the write of updateAnswerComment, the write leaves
\* every answer other than the one named by answerId as it is, and when the
\* named answer is no longer at the position found the collection is
\* unchanged and the response is 404.
C10_Claim ==
    [][\A s \in Slots :
        Writes(s) =>
            LET r == slots[s]
                before == AnswersOf(store, r.id)
                after == AnswersOf(store', r.id)
            IN  /\ Len(after) = Len(before)
                /\ \A i \in 1..Len(before) : before[i]._id # r.aid => after[i] = before[i]
                /\ (~InPlace(store, r) /\ ~StoreFailed(last')) =>
                      (store' = store /\ Status(last') = 404)]_vars

====
